---- MODULE Spec2Model ----
(***************************************************************************)
(* Model of import.py: the one-pass restore pipeline                        *)
(*   resolve_input_file -> detect_file_type -> force_enable_postgis ->      *)
(*   import_with_pg_restore | import_with_psql | import_with_ogr2ogr.       *)
(*                                                                         *)
(* A file is a sequence of bytes; a byte is a one-character string, and     *)
(* "FF" stands for a byte that is invalid in UTF-8 (dropped by              *)
(* errors='ignore').  The environment of one run (directory listing, file   *)
(* content, I/O errors, installed tools, outcomes of the external tools)    *)
(* is drawn in Init and never changes: the program is sequential and        *)
(* deterministic given its environment.                                     *)
(***************************************************************************)
EXTENDS Integers, Sequences, FiniteSets, TLC

VARIABLES env, pc, input_path, file_type, importer, stmt, calls, stdout, stderr, trace,
          exit_code, crashed

vars ==
    <<env, pc, input_path, file_type, importer, stmt, calls, stdout, stderr, trace, exit_code,
      crashed>>

\* ---------------------------------------------------------------- bounds
\* longest file, in chunks, the detector is checked on
MaxChunks == 3
\* largest exit status an import tool reports
MaxReturnCode == 2

\* ------------------------------------------------------- configuration
INPUT_FILENAME == "GisTPI"
DB_HOST == "localhost"
DB_PORT == "5433"
DB_NAME == "geoserver"
DB_USER == "postgres"
DB_PASSWORD == "postgres"

\* f.read(15)
HeaderLen == 15
\* f.read(100)
TextLen == 100

\* ------------------------------------------------------------ byte strings
RECURSIVE Flatten(_)
Flatten(ss) == IF ss = <<>> THEN <<>> ELSE Head(ss) \o Flatten(Tail(ss))

Repeat(c, n) == [k \in 1..n |-> c]

Take(s, n) == SubSeq(s, 1, IF Len(s) < n THEN Len(s) ELSE n)

\* bytes.startswith / str.startswith
StartsWith(s, p) == Len(s) >= Len(p) /\ SubSeq(s, 1, Len(p)) = p

\* the `in` operator on bytes and on str
Contains(s, p) == \E i \in 1..(Len(s) - Len(p) + 1) : SubSeq(s, i, i + Len(p) - 1) = p

PGDMP == <<"P", "G", "D", "M", "P">>
SQLITE_MAGIC == <<"S", "Q", "L", "i", "t", "e", " ", "f", "o", "r", "m", "a", "t", " ", "3">>
KW_CREATE == <<"C", "R", "E", "A", "T", "E">>
KW_SET == <<"S", "E", "T">>
KW_COMMENT == <<"-", "-">>

InvalidByte == "FF"

LowerCase == <<"a", "c", "e", "f", "i", "l", "m", "o", "r", "s", "t", "x">>
UpperCase == <<"A", "C", "E", "F", "I", "L", "M", "O", "R", "S", "T", "X">>

\* str.upper(), one character
UpperChar(c) ==
    IF \E k \in 1..Len(LowerCase) : LowerCase[k] = c
    THEN UpperCase[CHOOSE k \in 1..Len(LowerCase) : LowerCase[k] = c]
    ELSE c

Upper(s) == [k \in 1..Len(s) |-> UpperChar(s[k])]

\* open(..., 'r', encoding='utf-8', errors='ignore'): undecodable bytes vanish
DecodeIgnore(b) == SelectSeq(b, LAMBDA x : x # InvalidByte)

\* ---------------------------------------------------------------- detector
\* detect_text with the .upper() forgotten: the markers match in upper case only
detect_text_case_sensitive(bytes, io_text) ==
    IF io_text THEN "UNKNOWN"
    ELSE LET start == Take(DecodeIgnore(bytes), TextLen)
         IN  IF Contains(start, KW_CREATE) \/ Contains(start, KW_SET) \/ Contains(start, KW_COMMENT)
             THEN "SQL_SCRIPT"
             ELSE "UNKNOWN"

\* the text branch of detect_file_type (lines 140-144)
detect_text(bytes, io_text) ==
    IF io_text THEN "UNKNOWN"
    ELSE LET start == Upper(Take(DecodeIgnore(bytes), TextLen))
         IN  IF Contains(start, KW_CREATE) \/ Contains(start, KW_SET) \/ Contains(start, KW_COMMENT)
             THEN "SQL_SCRIPT"
             ELSE "UNKNOWN"

\* detect_file_type comparing the header with the marker instead of its prefix
detect_file_type_exact_marker(bytes, io_bin, io_text) ==
    IF io_bin THEN "UNKNOWN"
    ELSE LET header == Take(bytes, HeaderLen)
         IN  IF header = PGDMP THEN "PG_DUMP_BINARY"
             ELSE IF Contains(header, SQLITE_MAGIC) THEN "GEOPACKAGE"
             ELSE detect_text(bytes, io_text)

\* detect_file_type reading one byte too few for the SQLite magic string
detect_file_type_short_header(bytes, io_bin, io_text) ==
    IF io_bin THEN "UNKNOWN"
    ELSE LET header == Take(bytes, HeaderLen - 1)
         IN  IF StartsWith(header, PGDMP) THEN "PG_DUMP_BINARY"
             ELSE IF Contains(header, SQLITE_MAGIC) THEN "GEOPACKAGE"
             ELSE detect_text(bytes, io_text)

\* io_bin: the binary open/read raises; io_text: the text open/read raises
detect_file_type(bytes, io_bin, io_text) ==
    IF io_bin THEN "UNKNOWN"
    ELSE LET header == Take(bytes, HeaderLen)
         IN  IF StartsWith(header, PGDMP) THEN "PG_DUMP_BINARY"
             ELSE IF Contains(header, SQLITE_MAGIC) THEN "GEOPACKAGE"
             ELSE detect_text(bytes, io_text)

\* ------------------------------------------------------------- environment
Tools == {"psql", "pg_restore", "ogr2ogr"}
FileNames == {"GisTPI", "GisTPI.backup"}

\* what lies beside the program: the configured name as a regular file, the
\* configured name as a directory, only a file of another name
Listings ==
    { [n \in FileNames |-> IF n = "GisTPI" THEN "file" ELSE "absent"],
      [n \in FileNames |-> IF n = "GisTPI" THEN "dir" ELSE "file"],
      [n \in FileNames |-> IF n = "GisTPI" THEN "absent" ELSE "file"] }

\* stderr of psql, as the sequence of its fragments
ErrMissingWindows ==
    <<"could not open extension control file", "C:/", "Program Files", "/", "PostgreSQL", "/",
      "17", "/", "share", "/", "extension", "/", "postgis.control", "No such file or directory">>
ErrMissingUnix ==
    <<"could not open extension control file", "/usr/", "share", "/", "postgresql", "/",
      "extension", "/", "postgis.control", "No such file or directory">>
ErrNoSocket == <<"connection to server on socket failed", "No such file or directory">>
ErrControlDenied ==
    <<"could not open extension control file", "postgis.control", "Permission denied">>

\* what subprocess.run of one enable-extension statement can do
EnableOutcomes ==
    { [raises |-> FALSE, returncode |-> 0, stderr |-> <<>>],
      [raises |-> TRUE, returncode |-> 0, stderr |-> <<>>] }
    \cup { [raises |-> FALSE, returncode |-> 1, stderr |-> t] :
             t \in {ErrMissingWindows, ErrMissingUnix, ErrNoSocket, ErrControlDenied} }

\* what subprocess.run of the import tool can do
ImportOutcomes ==
    { [raises |-> TRUE, returncode |-> 0] }
    \cup { [raises |-> FALSE, returncode |-> r] : r \in 0..MaxReturnCode }

\* the PostgreSQL version directory that holds stackbuilder.exe, and whether Popen of it works
Installers ==
    { [stackbuilder |-> "17", popen_ok |-> TRUE],
      [stackbuilder |-> "16", popen_ok |-> TRUE],
      [stackbuilder |-> "16", popen_ok |-> FALSE],
      [stackbuilder |-> "none", popen_ok |-> TRUE] }

\* the files the whole pipeline is run on, one or two of each kind
RunInputs ==
    { [bytes |-> PGDMP \o <<"x">> \o SQLITE_MAGIC, io_bin |-> FALSE, io_text |-> FALSE],
      [bytes |-> SQLITE_MAGIC \o <<"x">>, io_bin |-> FALSE, io_text |-> FALSE],
      [bytes |-> <<"s", "e", "t", " ", "x">>, io_bin |-> FALSE, io_text |-> FALSE],
      [bytes |-> <<"x", " ", "x">>, io_bin |-> FALSE, io_text |-> FALSE],
      [bytes |-> PGDMP, io_bin |-> TRUE, io_text |-> FALSE],
      [bytes |-> <<"-", "-", "x">>, io_bin |-> FALSE, io_text |-> TRUE] }

Envs ==
    { [listing |-> l, bytes |-> f.bytes, io_bin |-> f.io_bin, io_text |-> f.io_text,
       which |-> w, common |-> c, enable |-> <<e1, e2>>,
       stackbuilder |-> sb.stackbuilder, popen_ok |-> sb.popen_ok, import_result |-> r] :
      l \in Listings, f \in RunInputs, w \in SUBSET Tools, c \in {{}, {"pg_restore"}},
      e1 \in EnableOutcomes, e2 \in EnableOutcomes, sb \in Installers, r \in ImportOutcomes }

\* ------------------------------------------------------------------ state
NoPath == ""
None == "None"

Cur ==
    [pc |-> pc, input_path |-> input_path, file_type |-> file_type, importer |-> importer,
     stmt |-> stmt, calls |-> calls, stdout |-> stdout, stderr |-> stderr, trace |-> trace,
     exit_code |-> exit_code, crashed |-> crashed]

Start ==
    [pc |-> "main", input_path |-> NoPath, file_type |-> "", importer |-> "", stmt |-> 1,
     calls |-> <<>>, stdout |-> <<>>, stderr |-> <<>>, trace |-> <<>>, exit_code |-> 0,
     crashed |-> FALSE]

Become(s) ==
    /\ pc' = s.pc
    /\ input_path' = s.input_path
    /\ file_type' = s.file_type
    /\ importer' = s.importer
    /\ stmt' = s.stmt
    /\ calls' = s.calls
    /\ stdout' = s.stdout
    /\ stderr' = s.stderr
    /\ trace' = s.trace
    /\ exit_code' = s.exit_code
    /\ crashed' = s.crashed

\* print(...)
Say(s, m) == [s EXCEPT !.stdout = Append(@, m)]
\* print(..., file=sys.stderr)
Err(s, m, code) == [s EXCEPT !.stderr = Append(@, [msg |-> m, code |-> code])]
\* a function of the program is entered
Enter(s, fn) == [s EXCEPT !.trace = Append(@, fn)]
\* subprocess.run / subprocess.Popen / webbrowser.open is called
Launch(s, api, argv) == [s EXCEPT !.calls = Append(@, [api |-> api, argv |-> argv])]
\* sys.exit(code)
Exit(s, code) == [s EXCEPT !.pc = "exited", !.exit_code = code]
\* the interpreter ends after the last statement
Finish(s) == [s EXCEPT !.pc = "exited"]
\* an exception nobody catches: traceback on stderr, exit status 1
Crash(s, exc) ==
    [s EXCEPT !.pc = "exited", !.exit_code = 1, !.crashed = TRUE,
              !.stderr = Append(@, [msg |-> exc, code |-> 0])]

ConnArgs == <<"-h", DB_HOST, "-p", DB_PORT, "-U", DB_USER, "-d", DB_NAME>>

\* ------------------------------------------------------------------ tools
\* the newest match of the common installation directories
CommonPath(name) ==
    CASE name = "psql" -> "C:/Program Files/PostgreSQL/17/bin/psql.exe"
      [] name = "pg_restore" -> "C:/Program Files/PostgreSQL/17/bin/pg_restore.exe"
      [] OTHER -> "C:/OSGeo4W/bin/ogr2ogr.exe"

\* shutil.which first, then the common installation directories
find_executable(name, e) ==
    IF name \in e.which THEN name
    ELSE IF name \in e.common THEN CommonPath(name)
    ELSE None

\* ------------------------------------------------- installer / browser
StripChars == {"/", "\\", " "}

RECURSIVE LStrip(_)
LStrip(s) == IF s # <<>> /\ Head(s) \in StripChars THEN LStrip(Tail(s)) ELSE s

RECURSIVE RStrip(_)
RStrip(s) ==
    IF s # <<>> /\ s[Len(s)] \in StripChars THEN RStrip(SubSeq(s, 1, Len(s) - 1)) ELSE s

\* str.strip("/\\ ")
Strip(s) == RStrip(LStrip(s))

HasFragment(text, frag) == \E k \in 1..Len(text) : text[k] = frag

\* str.find(frag, from): the first position at or after `from`, 0 for -1
Find(text, frag, from) ==
    IF \E k \in from..Len(text) : text[k] = frag
    THEN CHOOSE k \in from..Len(text) : text[k] = frag /\ \A j \in from..(k - 1) : text[j] # frag
    ELSE 0

\* lines 46-60: the installation directory named by the error text
base_path(stderr_output) ==
    IF ~HasFragment(stderr_output, "PostgreSQL") THEN <<>>
    ELSE LET first == Find(stderr_output, "C:/", 1)
             start_idx == IF first = 0 THEN Find(stderr_output, "C:\\", 1) ELSE first
             end_idx == IF start_idx = 0 THEN 0 ELSE Find(stderr_output, "share", start_idx)
         IN  IF start_idx # 0 /\ end_idx # 0
             THEN Strip(SubSeq(stderr_output, start_idx, end_idx - 1))
             ELSE <<>>

Version17 == <<"C:/", "Program Files", "/", "PostgreSQL", "/", "17">>

\* lines 62-74: e.stackbuilder is the version directory that holds
\* stackbuilder.exe ("17", "16") or "none"
stackbuilder_path(stderr_output, e) ==
    IF base_path(stderr_output) = Version17 /\ e.stackbuilder = "17"
    THEN "C:/Program Files/PostgreSQL/17/bin/stackbuilder.exe"
    ELSE IF e.stackbuilder = "17" THEN "C:\\Program Files\\PostgreSQL\\17\\bin\\stackbuilder.exe"
    ELSE IF e.stackbuilder = "16" THEN "C:\\Program Files\\PostgreSQL\\16\\bin\\stackbuilder.exe"
    ELSE None

INSTALL_URL == "https://www.postgis.net/documentation/getting_started/install_windows/"

\* the state after the call; the returned flag is not used by the caller
launch_stackbuilder_from_error(s, stderr_output, e) ==
    LET s0 == Say(Enter(s, "launch_stackbuilder_from_error"), "locating installer")
        path == stackbuilder_path(stderr_output, e)
    IN  IF path # None
        THEN LET s1 == Launch(Say(s0, "installer found"), "Popen", <<path>>)
             IN  IF e.popen_ok THEN s1 ELSE Say(s1, "error opening installer")
        ELSE Launch(Say(s0, "installer not found"), "webbrowser.open", <<INSTALL_URL>>)

\* -------------------------------------------------- extension activator
commands ==
    <<"CREATE EXTENSION IF NOT EXISTS postgis CASCADE;",
      "CREATE EXTENSION IF NOT EXISTS postgis_topology;">>

\* line 123
missing_extension_files(err_msg) ==
    HasFragment(err_msg, "No such file or directory") /\ HasFragment(err_msg, "postgis.control")

\* lines 100-112: look for psql; without it the activator returns at once
force_enable_postgis_find(s, e) ==
    LET s0 == Say(Enter(s, "force_enable_postgis"), "PASO 1")
    IN  IF find_executable("psql", e) = None
        THEN [Err(s0, "No encuentro psql", 0) EXCEPT !.pc = "import"]
        ELSE [s0 EXCEPT !.pc = "enable_sql", !.stmt = 1]

\* the loop goes to its next statement, or the activator returns
next_statement(s) ==
    IF s.stmt < Len(commands) THEN [s EXCEPT !.stmt = @ + 1] ELSE [s EXCEPT !.pc = "import"]

\* force_enable_postgis_sql with a bare `except:`, which catches the
\* SystemExit of sys.exit(1): the loop goes on
force_enable_postgis_sql_swallow_exit(s, e) ==
    LET o == e.enable[s.stmt]
        sql == commands[s.stmt]
        cmd == <<find_executable("psql", e)>> \o ConnArgs \o <<"-c", sql>>
        s0 == Launch(s, "run", cmd)
    IN  IF o.raises THEN next_statement(Say(s0, "Error intentando activar PostGIS"))
        ELSE IF o.returncode = 0 THEN next_statement(Say(s0, "Ejecutado"))
        ELSE IF missing_extension_files(o.stderr)
             THEN next_statement(Say(launch_stackbuilder_from_error(
                           Err(s0, "FALTA POSTGIS EN EL SISTEMA", 0), o.stderr, e),
                           "Error intentando activar PostGIS"))
             ELSE next_statement(Err(s0, "Error SQL (ignorable si ya existe)", 0))

\* force_enable_postgis_sql with the try around the whole loop: an exception
\* of subprocess.run ends the loop
force_enable_postgis_sql_break(s, e) ==
    LET o == e.enable[s.stmt]
        sql == commands[s.stmt]
        cmd == <<find_executable("psql", e)>> \o ConnArgs \o <<"-c", sql>>
        s0 == Launch(s, "run", cmd)
    IN  IF o.raises THEN [Say(s0, "Error intentando activar PostGIS") EXCEPT !.pc = "import"]
        ELSE IF o.returncode = 0 THEN next_statement(Say(s0, "Ejecutado"))
        ELSE IF missing_extension_files(o.stderr)
             THEN Exit(launch_stackbuilder_from_error(
                           Err(s0, "FALTA POSTGIS EN EL SISTEMA", 0), o.stderr, e), 1)
             ELSE next_statement(Err(s0, "Error SQL (ignorable si ya existe)", 0))

\* lines 114-131: one iteration of the loop over the two statements
force_enable_postgis_sql(s, e) ==
    LET o == e.enable[s.stmt]
        sql == commands[s.stmt]
        cmd == <<find_executable("psql", e)>> \o ConnArgs \o <<"-c", sql>>
        s0 == Launch(s, "run", cmd)
    IN  IF o.raises THEN next_statement(Say(s0, "Error intentando activar PostGIS"))
        ELSE IF o.returncode = 0 THEN next_statement(Say(s0, "Ejecutado"))
        ELSE IF missing_extension_files(o.stderr)
             THEN Exit(launch_stackbuilder_from_error(
                           Err(s0, "FALTA POSTGIS EN EL SISTEMA", 0), o.stderr, e), 1)
             ELSE next_statement(Err(s0, "Error SQL (ignorable si ya existe)", 0))

\* -------------------------------------------------------------- importers
\* lines 154-181, after the activator has returned
import_with_pg_restore(s, e) ==
    LET tool == find_executable("pg_restore", e)
        cmd == <<tool>> \o ConnArgs
                 \o <<"-v", "-c", "--if-exists", "--no-owner", "--no-acl", s.input_path>>
    IN  IF tool = None THEN Finish(Err(s, "No encuentro pg_restore", 0))
        ELSE LET s0 == Launch(Say(s, "Ejecutando restauracion"), "run", cmd)
             IN  IF e.import_result.raises
                 THEN Finish(Say(s0, "Error ejecutando pg_restore"))
                 ELSE Finish(Say(s0, "Proceso finalizado"))

\* import_with_psql with check=False: the exit status of psql is ignored
import_with_psql_unchecked(s, e) ==
    LET tool == find_executable("psql", e)
        cmd == <<tool>> \o ConnArgs \o <<"-f", s.input_path>>
    IN  IF tool = None THEN Finish(Err(s, "No encuentro psql", 0))
        ELSE LET s0 == Launch(s, "run", cmd)
             IN  IF e.import_result.raises THEN Crash(s0, "Traceback: OSError")
                 ELSE Finish(Say(s0, "Importacion SQL finalizada"))

\* lines 187-201, after the activator has returned
import_with_psql(s, e) ==
    LET tool == find_executable("psql", e)
        cmd == <<tool>> \o ConnArgs \o <<"-f", s.input_path>>
    IN  IF tool = None THEN Finish(Err(s, "No encuentro psql", 0))
        ELSE LET s0 == Launch(s, "run", cmd)
             IN  IF e.import_result.raises THEN Crash(s0, "Traceback: OSError")
                 ELSE IF e.import_result.returncode # 0
                      THEN Finish(Err(s0, "Error ejecutando psql", e.import_result.returncode))
                      ELSE Finish(Say(s0, "Importacion SQL finalizada"))

DSN == "PG:host=localhost port=5433 dbname=geoserver user=postgres password=postgres"

\* lines 205-208: the result of find_executable is used unchecked; with None
\* as the program name subprocess.run raises TypeError and starts no process
import_with_ogr2ogr(s, e) ==
    LET tool == find_executable("ogr2ogr", e)
        cmd == <<tool, "-f", "PostgreSQL", DSN, s.input_path, "-overwrite", "-nln", "GisTPI_import">>
        s0 == Launch(s, "run", cmd)
    IN  IF tool = None THEN Crash(s0, "Traceback: TypeError")
        ELSE IF e.import_result.raises THEN Crash(s0, "Traceback: OSError")
        ELSE Finish(s0)

\* ------------------------------------------------------------------ driver
\* resolve_input_file with os.path.exists: a directory of that name passes
resolve_input_file_exists(filename_raw, e) ==
    IF filename_raw \in DOMAIN e.listing /\ e.listing[filename_raw] # "absent"
    THEN filename_raw
    ELSE NoPath

\* os.path.isfile(os.path.join(script_dir, filename_raw)); a path beside the
\* program is written as its file name
resolve_input_file(filename_raw, e) ==
    IF filename_raw \in DOMAIN e.listing /\ e.listing[filename_raw] = "file"
    THEN filename_raw
    ELSE NoPath

\* lines 218-224
main_resolve(s, e) ==
    LET s0 == Enter(Say(s, "INICIANDO PROCESO DE RECUPERACION"), "resolve_input_file")
        path == resolve_input_file(INPUT_FILENAME, e)
    IN  IF path = NoPath THEN Exit(Err(s0, "No encuentro el archivo", 0), 1)
        ELSE [s0 EXCEPT !.input_path = path, !.pc = "detect"]

\* lines 226-227
main_detect(s, e) ==
    LET t == detect_file_type(e.bytes, e.io_bin, e.io_text)
    IN  [Say(Enter(s, "detect_file_type"), "Tipo de archivo") EXCEPT !.file_type = t,
                                                                    !.pc = "dispatch"]

\* enter_importer where import_with_psql does not call the activator
enter_importer_skip_activator(s, name) ==
    LET s0 == Say(Enter(s, name), "PASO 2")
    IN  [s0 EXCEPT !.importer = name,
                   !.pc = IF name = "import_with_pg_restore" THEN "enable_find" ELSE "import"]

\* the first lines of an importer: its banner and, but for ogr2ogr, the
\* call of the activator (lines 149-152, 184-185, 204)
enter_importer(s, name) ==
    LET s0 == Say(Enter(s, name), "PASO 2")
    IN  [s0 EXCEPT !.importer = name,
                   !.pc = IF name = "import_with_ogr2ogr" THEN "import" ELSE "enable_find"]

\* main_dispatch that only warns about an unknown format and stops
main_dispatch_unknown_gives_up(s, e) ==
    IF s.file_type = "PG_DUMP_BINARY" THEN enter_importer(s, "import_with_pg_restore")
    ELSE IF s.file_type = "SQL_SCRIPT" THEN enter_importer(s, "import_with_psql")
    ELSE IF s.file_type = "GEOPACKAGE" THEN enter_importer(s, "import_with_ogr2ogr")
    ELSE Finish(Say(s, "Formato desconocido, probando pg_restore"))

\* lines 229-237
main_dispatch(s, e) ==
    IF s.file_type = "PG_DUMP_BINARY" THEN enter_importer(s, "import_with_pg_restore")
    ELSE IF s.file_type = "SQL_SCRIPT" THEN enter_importer(s, "import_with_psql")
    ELSE IF s.file_type = "GEOPACKAGE" THEN enter_importer(s, "import_with_ogr2ogr")
    ELSE enter_importer(Say(s, "Formato desconocido, probando pg_restore"),
                        "import_with_pg_restore")

\* ------------------------------------------------------------------ actions
Resolve == pc = "main" /\ Become(main_resolve(Cur, env)) /\ UNCHANGED env

Detect == pc = "detect" /\ Become(main_detect(Cur, env)) /\ UNCHANGED env

Dispatch == pc = "dispatch" /\ Become(main_dispatch(Cur, env)) /\ UNCHANGED env

EnableFind == pc = "enable_find" /\ Become(force_enable_postgis_find(Cur, env)) /\ UNCHANGED env

EnableSql == pc = "enable_sql" /\ Become(force_enable_postgis_sql(Cur, env)) /\ UNCHANGED env

ImportPgRestore ==
    /\ pc = "import" /\ importer = "import_with_pg_restore"
    /\ Become(import_with_pg_restore(Cur, env)) /\ UNCHANGED env

ImportPsql ==
    /\ pc = "import" /\ importer = "import_with_psql"
    /\ Become(import_with_psql(Cur, env)) /\ UNCHANGED env

ImportOgr2ogr ==
    /\ pc = "import" /\ importer = "import_with_ogr2ogr"
    /\ Become(import_with_ogr2ogr(Cur, env)) /\ UNCHANGED env

\* the state is the record s
Is(s) ==
    /\ pc = s.pc
    /\ input_path = s.input_path
    /\ file_type = s.file_type
    /\ importer = s.importer
    /\ stmt = s.stmt
    /\ calls = s.calls
    /\ stdout = s.stdout
    /\ stderr = s.stderr
    /\ trace = s.trace
    /\ exit_code = s.exit_code
    /\ crashed = s.crashed

Init == env \in Envs /\ Is(Start)

Next ==
    \/ Resolve
    \/ Detect
    \/ Dispatch
    \/ EnableFind
    \/ EnableSql
    \/ ImportPgRestore
    \/ ImportPsql
    \/ ImportOgr2ogr

Spec == Init /\ [][Next]_vars

\* ---------------------------------------------------- the detector alone
Chunks ==
    { PGDMP, SQLITE_MAGIC, <<"x">>, Repeat("x", 98), <<"c", "r", "e">>, <<"a", "t", "e">>,
      <<"S", "e", "T">>, KW_COMMENT, <<InvalidByte>> }

ChunkLists == UNION { [1..n -> Chunks] : n \in 0..MaxChunks }

OkTool == [raises |-> FALSE, returncode |-> 0, stderr |-> <<>>]

\* the input file is there and every tool works; the content and the I/O
\* errors of the two reads vary
DetectEnvs ==
    { [listing |-> [n \in FileNames |-> IF n = "GisTPI" THEN "file" ELSE "absent"],
       bytes |-> Flatten(cl), io_bin |-> b, io_text |-> x,
       which |-> Tools, common |-> {}, enable |-> <<OkTool, OkTool>>,
       stackbuilder |-> "none", popen_ok |-> TRUE,
       import_result |-> [raises |-> FALSE, returncode |-> 0]] :
      cl \in ChunkLists, b \in BOOLEAN, x \in BOOLEAN }

InitDetect == env \in DetectEnvs /\ Is(main_resolve(Start, env))

NextDetect == Detect

SpecDetect == InitDetect /\ [][NextDetect]_vars

\* ------------------------------------------ a whole run as one computation
StepOf(s, e) ==
    CASE s.pc = "main" -> main_resolve(s, e)
      [] s.pc = "detect" -> main_detect(s, e)
      [] s.pc = "dispatch" -> main_dispatch(s, e)
      [] s.pc = "enable_find" -> force_enable_postgis_find(s, e)
      [] s.pc = "enable_sql" -> force_enable_postgis_sql(s, e)
      [] s.pc = "import" /\ s.importer = "import_with_pg_restore" -> import_with_pg_restore(s, e)
      [] s.pc = "import" /\ s.importer = "import_with_psql" -> import_with_psql(s, e)
      [] s.pc = "import" /\ s.importer = "import_with_ogr2ogr" -> import_with_ogr2ogr(s, e)
      [] OTHER -> s

RECURSIVE RunToEnd(_, _)
RunToEnd(s, e) == IF s.pc = "exited" THEN s ELSE RunToEnd(StepOf(s, e), e)

\* ================================================================ claims
\* the detector has returned and its tag is stored
Detected == pc = "dispatch"

\* a script marker lies wholly within the first 100 characters of the
\* decoded, uppercased text
MarkerWithin100(bytes) ==
    LET txt == Upper(DecodeIgnore(bytes))
    IN  \E kw \in {KW_CREATE, KW_SET, KW_COMMENT} :
          \E k \in 1..Len(txt) :
            k + Len(kw) - 1 <= 100 /\ k + Len(kw) - 1 <= Len(txt)
            /\ SubSeq(txt, k, k + Len(kw) - 1) = kw

\* C4 as stated: a file that is read without error, does not start with
\* PGDMP and holds the SQLite magic string at any offset within its first
\* 128 bytes is tagged GEOPACKAGE.
C4_AnyOffset ==
    (Detected /\ ~env.io_bin /\ ~env.io_text /\ ~StartsWith(env.bytes, PGDMP)
       /\ Contains(Take(env.bytes, 128), SQLITE_MAGIC))
    => file_type = "GEOPACKAGE"

\* C4 (amended): a file that is read without error and whose first 15 bytes
\* are the SQLite magic string (the magic at offset 0) is tagged GEOPACKAGE.
C4_MagicAtStart ==
    (Detected /\ ~env.io_bin /\ StartsWith(env.bytes, SQLITE_MAGIC))
    => file_type = "GEOPACKAGE"

C4_Witness ==
    /\ Detected /\ ~env.io_bin /\ StartsWith(env.bytes, SQLITE_MAGIC)
    /\ Len(env.bytes) > Len(SQLITE_MAGIC)
    /\ file_type = "GEOPACKAGE"

\* C5: a file that is read without error and starts with PGDMP is tagged
\* PG_DUMP_BINARY whatever follows, the SQLite magic string and the script
\* markers included.
C5_BinaryDumpFirst ==
    (Detected /\ ~env.io_bin /\ StartsWith(env.bytes, PGDMP))
    => file_type = "PG_DUMP_BINARY"

C5_Witness ==
    /\ Detected /\ ~env.io_bin /\ StartsWith(env.bytes, PGDMP)
    /\ Contains(env.bytes, SQLITE_MAGIC) /\ Contains(env.bytes, KW_COMMENT)
    /\ file_type = "PG_DUMP_BINARY"

\* C6: a file that is read without error, has no PGDMP prefix and no SQLite
\* magic string, is tagged SQL_SCRIPT when CREATE, SET or -- occurs, in any
\* letter case, within its first 100 characters, and is not tagged
\* SQL_SCRIPT when the markers occur only after them.
C6_ScriptMarkers ==
    (Detected /\ ~env.io_bin /\ ~env.io_text
       /\ ~StartsWith(env.bytes, PGDMP) /\ ~Contains(env.bytes, SQLITE_MAGIC))
    => (file_type = "SQL_SCRIPT" <=> MarkerWithin100(env.bytes))

\* a marker matched only through case folding and only across a dropped
\* byte
C6_Witness ==
    /\ Detected /\ ~env.io_bin /\ ~env.io_text
    /\ env.bytes = <<"c", "r", "e", InvalidByte, "a", "t", "e">>
    /\ file_type = "SQL_SCRIPT"

\* ------------------------------------------------ the external invocations
Penultimate(argv) == IF Len(argv) >= 2 THEN argv[Len(argv) - 1] ELSE ""

\* psql -c <statement>
IsEnableCall(c) == c.api = "run" /\ Penultimate(c.argv) = "-c"
IsEnable(c, sql) == IsEnableCall(c) /\ c.argv[Len(c.argv)] = sql

IsPgRestore(c) == c.api = "run" /\ c.argv[1] \in {"pg_restore", CommonPath("pg_restore")}
\* psql -f <file>
IsPsqlScript(c) == c.api = "run" /\ Penultimate(c.argv) = "-f"
IsOgr2ogr(c) == c.api = "run" /\ c.argv[1] \in {"ogr2ogr", CommonPath("ogr2ogr")}
IsImportTool(c) == IsPgRestore(c) \/ IsPsqlScript(c) \/ IsOgr2ogr(c)

Said(stream, m) == \E k \in 1..Len(stream) : stream[k].msg = m
Entered(fn) == \E k \in 1..Len(trace) : trace[k] = fn

\* the error text of a failed statement names the missing control file
FatalOutcome(o) ==
    /\ ~o.raises /\ o.returncode # 0
    /\ HasFragment(o.stderr, "No such file or directory")
    /\ HasFragment(o.stderr, "postgis.control")

\* psql -f was run and exited with a non-zero status
ScriptImportFailed ==
    /\ pc = "exited" /\ file_type = "SQL_SCRIPT"
    /\ \E k \in 1..Len(calls) : IsPsqlScript(calls[k])
    /\ ~env.import_result.raises /\ env.import_result.returncode # 0

\* C1 as stated: when the script import tool exits with a non-zero status,
\* the program ends with a non-zero exit status.
C1_NonZeroExit == ScriptImportFailed => exit_code # 0

\* C1 (amended): when the script import tool exits with a non-zero status,
\* the program reports that status on the error stream and ends normally,
\* with exit status 0.
C1_ReportedExitZero ==
    ScriptImportFailed
    => /\ exit_code = 0 /\ ~crashed
       /\ stderr # <<>>
       /\ stderr[Len(stderr)] =
            [msg |-> "Error ejecutando psql", code |-> env.import_result.returncode]

C1_Witness ==
    /\ ScriptImportFailed /\ env.import_result.returncode = 2
    /\ exit_code = 0 /\ Said(stderr, "Error ejecutando psql")

\* C2: once an enable-extension command has failed with the missing control
\* file error, the process has exited with a non-zero status and nothing but
\* the installer or the browser is launched after that command.
C2_MissingExtensionIsFatal ==
    \A k \in 1..2 :
      (k <= Len(calls) /\ IsEnableCall(calls[k]) /\ FatalOutcome(env.enable[k]))
      => /\ pc = "exited" /\ exit_code # 0
         /\ \A j \in (k + 1)..Len(calls) : calls[j].api \in {"Popen", "webbrowser.open"}

\* the second statement fails fatally and starting the installer fails too
C2_Witness ==
    /\ pc = "exited" /\ exit_code = 1 /\ Len(calls) = 3
    /\ IsEnableCall(calls[2]) /\ FatalOutcome(env.enable[2])
    /\ calls[3].api = "Popen" /\ ~env.popen_ok

RestoreFlags == <<"-v", "-c", "--if-exists", "--no-owner", "--no-acl", "GisTPI">>

\* pg_restore gets its fixed flags and the file; ogr2ogr runs after no
\* enable-extension command
FlagsAndPackagePath ==
    /\ \A k \in 1..Len(calls) :
         IsPgRestore(calls[k])
         => SubSeq(calls[k].argv, Len(calls[k].argv) - 5, Len(calls[k].argv)) = RestoreFlags
    /\ importer = "import_with_ogr2ogr" => \A k \in 1..Len(calls) : ~IsEnableCall(calls[k])

ActivatedBefore(k) ==
    /\ k = 3
    /\ IsEnable(calls[1], "CREATE EXTENSION IF NOT EXISTS postgis CASCADE;")
    /\ IsEnable(calls[2], "CREATE EXTENSION IF NOT EXISTS postgis_topology;")

\* C3 as stated: on the binary-dump, script and unknown paths the import
\* tool is launched only after the two enable-extension commands, in their
\* order; pg_restore gets its fixed flags; no enable-extension command on
\* the spatial-package path.
C3_AlwaysActivatedFirst ==
    /\ \A k \in 1..Len(calls) :
         (IsPgRestore(calls[k]) \/ IsPsqlScript(calls[k])) => ActivatedBefore(k)
    /\ FlagsAndPackagePath

\* C3 (amended): the same, provided psql is found; when psql cannot be found
\* the activator runs no command and pg_restore is launched without any
\* enable-extension command before it.
C3_ActivatedFirstWhenPsqlFound ==
    /\ \A k \in 1..Len(calls) :
         (IsPgRestore(calls[k]) \/ IsPsqlScript(calls[k]))
         => IF find_executable("psql", env) # None THEN ActivatedBefore(k) ELSE k = 1
    /\ FlagsAndPackagePath

C3_Witness ==
    /\ pc = "exited" /\ file_type = "SQL_SCRIPT" /\ Len(calls) = 3
    /\ ActivatedBefore(3) /\ IsPsqlScript(calls[3])
    /\ env.enable[1].returncode # 0

\* the file matches none of the detectors
NoneMatch(bytes) ==
    ~StartsWith(bytes, PGDMP) /\ ~Contains(bytes, SQLITE_MAGIC) /\ ~MarkerWithin100(bytes)

\* one of the two reads of the detector raised
IoErrorRaised ==
    \/ env.io_bin
    \/ /\ env.io_text
       /\ ~StartsWith(env.bytes, PGDMP)
       /\ ~Contains(Take(env.bytes, HeaderLen), SQLITE_MAGIC)

\* the run of the same environment from the dispatch on, had the tag been
\* PG_DUMP_BINARY
BinaryTwin ==
    RunToEnd([main_detect(main_resolve(Start, env), env) EXCEPT !.file_type = "PG_DUMP_BINARY"],
             env)

Without(seq, m) == SelectSeq(seq, LAMBDA x : x # m)

\* C7: a file that matches no detector, or whose read raises, is tagged
\* UNKNOWN; and a finished run with the tag UNKNOWN has made the external
\* invocations, written the error lines and ended with the exit status of
\* the run with the tag PG_DUMP_BINARY in the same environment, its output
\* differing by the one warning line.
C7_UnknownRunsAsBinaryDump ==
    /\ (pc \notin {"main", "detect"} /\ input_path # NoPath
          /\ (IoErrorRaised \/ NoneMatch(env.bytes)))
       => file_type = "UNKNOWN"
    /\ (pc = "exited" /\ file_type = "UNKNOWN")
       => /\ calls = BinaryTwin.calls
          /\ exit_code = BinaryTwin.exit_code
          /\ crashed = BinaryTwin.crashed
          /\ stderr = BinaryTwin.stderr
          /\ stdout # BinaryTwin.stdout
          /\ Without(stdout, "Formato desconocido, probando pg_restore") = BinaryTwin.stdout

\* a read error on a script: both statements and pg_restore were run
C7_Witness ==
    /\ pc = "exited" /\ file_type = "UNKNOWN" /\ env.io_text
    /\ MarkerWithin100(env.bytes)
    /\ Len(calls) = 3 /\ IsPgRestore(calls[3])

\* C8: a path is resolved only when the configured name is a regular file
\* beside the program; otherwise the process has exited with a non-zero
\* status, having called neither the detector nor the activator nor a tool.
C8_NotFoundExitsAtOnce ==
    /\ input_path # NoPath => (input_path = "GisTPI" /\ env.listing["GisTPI"] = "file")
    /\ (pc # "main" /\ env.listing["GisTPI"] # "file")
       => /\ pc = "exited" /\ exit_code # 0
          /\ trace = <<"resolve_input_file">>
          /\ calls = <<>>
          /\ file_type = ""

\* the configured name is a directory and a file of another name exists
C8_Witness ==
    /\ pc = "exited" /\ exit_code = 1 /\ input_path = NoPath
    /\ env.listing["GisTPI"] = "dir" /\ env.listing["GisTPI.backup"] = "file"
    /\ Said(stderr, "No encuentro el archivo")

NonFatalOutcome(o) ==
    \/ o.raises
    \/ o.returncode = 0
    \/ ~(HasFragment(o.stderr, "No such file or directory")
         /\ HasFragment(o.stderr, "postgis.control"))

\* the importer went on after the activator: it launched its tool or
\* reported that the tool is missing
ImportStepTaken ==
    \/ \E k \in 1..Len(calls) : IsPgRestore(calls[k]) \/ IsPsqlScript(calls[k])
    \/ Said(stderr, "No encuentro pg_restore")

\* C9: with psql found and the first statement ending without the fatal
\* error (success, another failure, or an exception of the launch), once the
\* activator is over both statements have been attempted exactly once, in
\* their order, and if the second did not end fatally either the run has
\* gone on into the import step.
C9_SecondStatementAttempted ==
    (/\ find_executable("psql", env) # None
     /\ Entered("force_enable_postgis")
     /\ pc \in {"import", "exited"}
     /\ NonFatalOutcome(env.enable[1]))
    => /\ Len(calls) >= 2
       /\ IsEnable(calls[1], "CREATE EXTENSION IF NOT EXISTS postgis CASCADE;")
       /\ IsEnable(calls[2], "CREATE EXTENSION IF NOT EXISTS postgis_topology;")
       /\ \A k \in 3..Len(calls) : ~IsEnableCall(calls[k])
       /\ NonFatalOutcome(env.enable[2]) => (pc = "import" \/ ImportStepTaken)

\* the launch of the first statement raised, the second succeeded
C9_Witness ==
    /\ pc = "exited" /\ Entered("force_enable_postgis")
    /\ env.enable[1].raises /\ env.enable[2].returncode = 0 /\ ~env.enable[2].raises
    /\ Len(calls) = 3 /\ IsEnableCall(calls[2]) /\ IsPgRestore(calls[3])

\* the activator ended by sys.exit
ActivatorExited == Said(stderr, "FALTA POSTGIS EN EL SISTEMA")

\* C10 as stated: a stage whose tool is not found launches nothing, reports
\* the missing tool on the error stream and ends without an unhandled
\* exception.
C10_MissingToolAbortsCleanly ==
    pc = "exited"
    => /\ (Entered("force_enable_postgis") /\ find_executable("psql", env) = None)
          => /\ \A k \in 1..Len(calls) : ~IsEnableCall(calls[k])
             /\ Said(stderr, "No encuentro psql") /\ ~crashed
       /\ (importer = "import_with_pg_restore" /\ ~ActivatorExited
             /\ find_executable("pg_restore", env) = None)
          => /\ \A k \in 1..Len(calls) : calls[k].argv[1] # None
             /\ Said(stderr, "No encuentro pg_restore") /\ ~crashed
       /\ (importer = "import_with_psql" /\ find_executable("psql", env) = None)
          => calls = <<>> /\ Said(stderr, "No encuentro psql") /\ ~crashed
       /\ (importer = "import_with_ogr2ogr" /\ find_executable("ogr2ogr", env) = None)
          => /\ \A k \in 1..Len(calls) : calls[k].argv[1] # None
             /\ Said(stderr, "No encuentro ogr2ogr") /\ ~crashed

====
